---- MODULE Spec2Model ----
(***************************************************************************)
(* A model of DynamicTextureAtlasImpl and TextureAtlasSuballocationImpl    *)
(* (Graphics/GraphicsTools/src/DynamicTextureAtlas.cpp).                   *)
(*                                                                         *)
(* The atlas packs rectangles into the slices of a texture array.  Every   *)
(* thread of the model runs one call at a time; pc[t] is the place of the  *)
(* call in the code and loc[t] holds the call's local variables.  Slice    *)
(* indices are 0-based as in the code; m_Slices is a sequence, so slice s  *)
(* is m_Slices[s + 1].                                                     *)
(***************************************************************************)
EXTENDS Integers, Sequences, FiniteSets

(***************************************************************************)
(* Bounds of the model.                                                    *)
(***************************************************************************)
NumThreads == 2
MaxHandles == 2
MaxRefs == 2
MaxDim == 3
MaxArraySize == 1
MaxSliceCountArg == 2
MaxExtraSliceCount == 1
AlignDim == 4

(***************************************************************************)
(* Program constants.                                                      *)
(***************************************************************************)
\* std::min(CreateInfo.MaxSliceCount, Uint32{2048})
HardMaxSliceCount == 2048

VARIABLES
    cfg,                \* the immutable members: m_Desc.Width/Height, m_MinAlignment, m_ExtraSliceCount, m_MaxSliceCount
    m_DescArraySize,    \* m_Desc.ArraySize
    m_pTexture,         \* 0 is the null pointer, k > 0 the k-th texture the device created
    texCreated,         \* number of textures the device has created
    m_Version,
    m_AllocationCount,
    m_AllocatedArea,
    m_UsedArea,
    m_SlicesMtx,        \* 0 when free, else the thread holding it
    m_Slices,
    m_AlignmentToSlice,
    m_NextUnusedSlice,
    handles,            \* the TextureAtlasSuballocationImpl objects
    atlas,              \* the atlas object's reference counter and lifetime
    pc,
    loc,
    snap                \* history: the atlas state when the thread's call began

vars == <<cfg, m_DescArraySize, m_pTexture, texCreated, m_Version, m_AllocationCount,
          m_AllocatedArea, m_UsedArea, m_SlicesMtx, m_Slices, m_AlignmentToSlice,
          m_NextUnusedSlice, handles, atlas, pc, loc, snap>>

Threads == 1..NumThreads
HandleIds == 1..MaxHandles

\* Uint32 and Int64 values stay far below 2^31 within the bounds of the model, so
\* the arithmetic of the code is modelled by the arithmetic of the integers.
Pow2(n) == 2 ^ n

MinOf(a, b) == IF a < b THEN a ELSE b

SetMin(S) == CHOOSE x \in S : \A y \in S : x <= y

IsPowerOfTwo(v) == v > 0 /\ \E k \in 0..30 : v = Pow2(k)

(***************************************************************************)
(* DynamicAtlasManager::Region and the region manager of one slice.        *)
(***************************************************************************)
NoRegion == [x |-> 0, y |-> 0, width |-> 0, height |-> 0]

IsEmpty(r) == r.width = 0 \/ r.height = 0

Intersect(a, b) ==
    /\ a.x < b.x + b.width
    /\ b.x < a.x + a.width
    /\ a.y < b.y + b.height
    /\ b.y < a.y + a.height

\* Region r of the grid of slice manager sl is free.
IsFree(sl, r) ==
    /\ r.x >= 0 /\ r.y >= 0
    /\ r.x + r.width <= sl.Width
    /\ r.y + r.height <= sl.Height
    /\ \A q \in sl.Regions : ~Intersect(r, q)

\* The regions of Width x Height cells that Mgr.Allocate may return: a free region
\* that cannot be moved one cell to the left nor one cell up (the manager places
\* a region in a corner of the free space).
MgrAllocate(sl, Width, Height) ==
    { r \in [x : 0..(sl.Width - Width), y : 0..(sl.Height - Height),
             width : {Width}, height : {Height}] :
        /\ IsFree(sl, r)
        /\ ~IsFree(sl, [r EXCEPT !.x = @ - 1])
        /\ ~IsFree(sl, [r EXCEPT !.y = @ - 1]) }

MgrFree(sl, r) == sl.Regions \ {r}

\* An entry of m_Slices: a null unique_ptr (init = FALSE) or a SliceManager.
NoSlice == [init |-> FALSE, Width |-> 0, Height |-> 0, Regions |-> {}, Mtx |-> 0]

SliceManager_OneMore(Width, Height) ==
    [init |-> TRUE, Width |-> Width + 1, Height |-> Height + 1, Regions |-> {}, Mtx |-> 0]

SliceManager(Width, Height) ==
    [init |-> TRUE, Width |-> Width, Height |-> Height, Regions |-> {}, Mtx |-> 0]

\* std::lock_guard<std::mutex> Lock{Mtx} can be taken
SliceMtxFree_NoLock(sl) == TRUE

SliceMtxFree(sl) == sl.Mtx = 0

\* std::lock_guard<std::mutex> Lock{m_SlicesMtx} can be taken
SlicesMtxFree == m_SlicesMtx = 0

(***************************************************************************)
(* TextureAtlasSuballocationImpl objects.  refs is the object's strong     *)
(* reference counter; freed counts the calls of the atlas' Free made for   *)
(* the object (history).                                                   *)
(***************************************************************************)
NoHandle ==
    [exists |-> FALSE, refs |-> 0, Slice |-> 0, Alignment |-> 0, Subregion |-> NoRegion,
     Size |-> [x |-> 0, y |-> 0], freed |-> 0, parentRefs |-> 0]

\* The local variables of a call.
NoLocals ==
    [Width |-> 0, Height |-> 0, Alignment |-> 0, AlignedWidth |-> 0, AlignedHeight |-> 0,
     Slice |-> 0, Subregion |-> NoRegion, h |-> 0, ArraySize |-> 0, grow |-> FALSE,
     created |-> FALSE, before |-> <<>>, Stats |-> <<>>]

(***************************************************************************)
(* Construction.                                                           *)
(***************************************************************************)
\* m_MaxSliceCount
MaxSliceCountOf(isArray, MaxSliceCount) ==
    IF isArray THEN MinOf(MaxSliceCount, HardMaxSliceCount) ELSE 1

\* The checks of the constructor on the minimum alignment.
ValidMinAlignment(a, Width, Height) ==
    a /= 0 => /\ IsPowerOfTwo(a)
              /\ Width % a = 0
              /\ Height % a = 0

\* The atlases of the model are squares of side MaxDim - 1 and MaxDim.
CreateInfos ==
    { c \in [Width : (MaxDim - 1)..MaxDim, Height : (MaxDim - 1)..MaxDim,
             MinAlignment : 0..MaxDim,
             ArraySize : 0..MaxArraySize, ExtraSliceCount : 0..MaxExtraSliceCount,
             MaxSliceCount : 1..MaxSliceCountArg, isArray : BOOLEAN, hasDevice : BOOLEAN] :
        /\ c.Width = c.Height
        /\ ValidMinAlignment(c.MinAlignment, c.Width, c.Height) }

Resize(s, n) ==
    IF n <= Len(s) THEN SubSeq(s, 1, n)
    ELSE s \o [i \in 1..(n - Len(s)) |-> NoSlice]

\* The state the constructor leaves for CreateInfo c (lines 142-192).
Constructed(c) ==
        /\ cfg = [Width |-> c.Width, Height |-> c.Height, MinAlignment |-> c.MinAlignment,
                  ExtraSliceCount |-> c.ExtraSliceCount,
                  MaxSliceCount |-> MaxSliceCountOf(c.isArray, c.MaxSliceCount)]
        /\ m_Slices = Resize(<<>>, c.ArraySize)
        /\ m_DescArraySize = IF c.hasDevice THEN c.ArraySize ELSE 0
        /\ m_pTexture = IF c.hasDevice /\ c.ArraySize > 0 THEN 1 ELSE 0
        /\ texCreated = IF c.hasDevice /\ c.ArraySize > 0 THEN 1 ELSE 0
        /\ m_Version = 0
        /\ m_AllocationCount = 0
        /\ m_AllocatedArea = 0
        /\ m_UsedArea = 0
        /\ m_SlicesMtx = 0
        /\ m_AlignmentToSlice = <<>>
        /\ m_NextUnusedSlice = 0
        /\ handles = [h \in HandleIds |-> NoHandle]
        /\ atlas = [refs |-> 1, user |-> TRUE, alive |-> TRUE]
        /\ pc = [t \in Threads |-> "idle"]
        /\ loc = [t \in Threads |-> NoLocals]
        /\ snap = [t \in Threads |-> <<>>]

\* An atlas constructed with a device.
Init == \E c \in CreateInfos : c.hasDevice /\ Constructed(c)

\* An atlas constructed with or without a device.
InitSeq == \E c \in CreateInfos : Constructed(c)

(***************************************************************************)
(* History: what a call compares the atlas with when it returns.  The      *)
(* mutexes are left out: they are free before and after every call.        *)
(***************************************************************************)
Occupancy ==
    [i \in DOMAIN m_Slices |->
        [init |-> m_Slices[i].init, Width |-> m_Slices[i].Width,
         Height |-> m_Slices[i].Height, Regions |-> m_Slices[i].Regions]]

Counters == <<m_AllocationCount, m_AllocatedArea, m_UsedArea>>

Structure == <<m_NextUnusedSlice, Len(m_Slices), m_AlignmentToSlice>>

AtlasView == [counters |-> Counters, structure |-> Structure, occupancy |-> Occupancy]

\* Thread t's snapshot becomes own; a step of t ends the comparison every other
\* thread is making, so a snapshot lasts only while its call runs alone.
SnapStep(t, own) ==
    snap' = [u \in Threads |-> IF u = t THEN own ELSE <<>>]

SetLoc(t, l) == loc' = [loc EXCEPT ![t] = l]

Goto(t, p) == pc' = [pc EXCEPT ![t] = p]

(***************************************************************************)
(* DynamicTextureAtlasImpl::Allocate.                                      *)
(***************************************************************************)
\* Lines 260-270: the requests Allocate returns from at once.
RequestRejected_NoUpperBound(Width, Height) == Width = 0 \/ Height = 0

RequestRejected(Width, Height) ==
    \/ Width = 0 \/ Height = 0
    \/ Width > cfg.Width \/ Height > cfg.Height

\* Lines 275-276: while (std::min(Width, Height) > Alignment) Alignment *= 2;
RECURSIVE DoubleAlignment_Strict(_, _)
DoubleAlignment_Strict(Alignment, MinSize) ==
    IF MinSize >= Alignment
    THEN DoubleAlignment_Strict(Alignment * 2, MinSize)
    ELSE Alignment

RECURSIVE DoubleAlignment(_, _)
DoubleAlignment(Alignment, MinSize) ==
    IF MinSize > Alignment
    THEN DoubleAlignment(Alignment * 2, MinSize)
    ELSE Alignment

\* Lines 272-281.
ResolveAlignment_LargerSide(Width, Height, MinAlignment) ==
    IF MinAlignment > 0
    THEN DoubleAlignment(MinAlignment, IF Width > Height THEN Width ELSE Height)
    ELSE 1

ResolveAlignment(Width, Height, MinAlignment) ==
    IF MinAlignment > 0
    THEN DoubleAlignment(MinAlignment, MinOf(Width, Height))
    ELSE 1

\* AlignUp of Align.hpp: val rounded up to a multiple of alignment.
AlignUp(val, alignment) == ((val + (alignment - 1)) \div alignment) * alignment

\* Lines 295-297: find the alignment's list, emplace an empty one if there is none.
EnsureBucket(map, Alignment) ==
    [a \in (DOMAIN map) \cup {Alignment} |-> IF a \in DOMAIN map THEN map[a] ELSE <<>>]

\* Lines 301-304: the first listed slice that is not below Slice, else m_NextUnusedSlice.
NextSliceInList_AnySlice(Slices, Slice, NextUnusedSlice) ==
    IF Slice < NextUnusedSlice THEN Slice ELSE NextUnusedSlice

NextSliceInList(Slices, Slice, NextUnusedSlice) ==
    LET notBelow == {i \in 1..Len(Slices) : ~(Slice > Slices[i])}
    IN  IF notBelow = {} THEN NextUnusedSlice ELSE Slices[SetMin(notBelow)]

\* Lines 313-317: one pass of the loop that grows m_Slices.
GrowSlices_Fresh(slices, Slice) ==
    LET ExtraSliceCount == IF cfg.ExtraSliceCount /= 0 THEN cfg.ExtraSliceCount ELSE Len(slices)
    IN  Resize(<<>>, MinOf(Slice + ExtraSliceCount, cfg.MaxSliceCount))

GrowSlices(slices, Slice) ==
    LET ExtraSliceCount == IF cfg.ExtraSliceCount /= 0 THEN cfg.ExtraSliceCount ELSE Len(slices)
    IN  Resize(slices, MinOf(Slice + ExtraSliceCount, cfg.MaxSliceCount))

\* Lines 320-331: register slice Slice under Alignment and construct its manager;
\* m_SlicesMtx is released at the end of the block.
NewSlice_KeepsSlicesMtx(t, map, slices, Slice, Alignment) ==
    /\ m_AlignmentToSlice' = [map EXCEPT ![Alignment] = Append(@, Slice)]
    /\ m_Slices' = [slices EXCEPT ![Slice + 1] =
                        SliceManager(cfg.Width \div Alignment, cfg.Height \div Alignment)]
    /\ m_NextUnusedSlice' = m_NextUnusedSlice + 1
    /\ m_SlicesMtx' = t
    /\ Goto(t, "alloc_slice")

NewSlice_NoAdvance(t, map, slices, Slice, Alignment) ==
    /\ m_AlignmentToSlice' = [map EXCEPT ![Alignment] = Append(@, Slice)]
    /\ m_Slices' = [slices EXCEPT ![Slice + 1] =
                        SliceManager(cfg.Width \div Alignment, cfg.Height \div Alignment)]
    /\ m_NextUnusedSlice' = m_NextUnusedSlice
    /\ m_SlicesMtx' = 0
    /\ Goto(t, "alloc_slice")

NewSlice(t, map, slices, Slice, Alignment) ==
    /\ m_AlignmentToSlice' = [map EXCEPT ![Alignment] = Append(@, Slice)]
    /\ m_Slices' = [slices EXCEPT ![Slice + 1] =
                        SliceManager(cfg.Width \div Alignment, cfg.Height \div Alignment)]
    /\ m_NextUnusedSlice' = m_NextUnusedSlice + 1
    /\ m_SlicesMtx' = 0
    /\ Goto(t, "alloc_slice")

\* Line 343: where the call goes after the placement loop.
AfterLoop_NoEmptyCheck(Subregion) == "alloc_add1"

AfterLoop(Subregion) == IF IsEmpty(Subregion) THEN "alloc_ret" ELSE "alloc_add1"

LiveHandles == {h \in HandleIds : handles[h].exists /\ handles[h].refs > 0}

ExistingHandles == {h \in HandleIds : handles[h].exists}

AllocPcs == {"alloc_loop", "alloc_grow", "alloc_slice", "alloc_commit", "alloc_add1",
             "alloc_add2", "alloc_add3", "alloc_ret"}

InAllocate == {t \in Threads : pc[t] \in AllocPcs}

\* Lines 256-287: the call, its checks and the alignment.
Allocate(t, Width, Height) ==
    /\ pc[t] = "idle"
    /\ atlas.alive /\ atlas.user
    /\ Cardinality(ExistingHandles) + Cardinality(InAllocate) < MaxHandles
    /\ IF RequestRejected(Width, Height)
       THEN /\ SetLoc(t, [NoLocals EXCEPT !.Width = Width, !.Height = Height])
            /\ Goto(t, "alloc_ret")
       ELSE LET Alignment == ResolveAlignment(Width, Height, cfg.MinAlignment)
            IN  /\ SetLoc(t, [NoLocals EXCEPT !.Width = Width, !.Height = Height,
                                              !.Alignment = Alignment,
                                              !.AlignedWidth = AlignUp(Width, Alignment),
                                              !.AlignedHeight = AlignUp(Height, Alignment)])
                /\ Goto(t, "alloc_loop")
    /\ SnapStep(t, IF \A u \in Threads : pc[u] = "idle" THEN <<AtlasView>> ELSE <<>>)
    /\ UNCHANGED <<cfg, m_DescArraySize, m_pTexture, texCreated, m_Version, m_AllocationCount,
                   m_AllocatedArea, m_UsedArea, m_SlicesMtx, m_Slices, m_AlignmentToSlice,
                   m_NextUnusedSlice, handles, atlas>>

\* Line 308: if (Slice == m_MaxSliceCount) break;
ReachedMaxSliceCount_Never(Slice) == FALSE

ReachedMaxSliceCount(Slice) == Slice = cfg.MaxSliceCount

\* Lines 288-331: the loop test and the section under m_SlicesMtx, up to the loop
\* that grows m_Slices.
AllocLoop(t) ==
    /\ pc[t] = "alloc_loop"
    /\ LET l == loc[t] IN
       IF ~(l.Slice < cfg.MaxSliceCount)
       THEN /\ Goto(t, AfterLoop(l.Subregion))
            /\ UNCHANGED <<loc, m_SlicesMtx, m_Slices, m_AlignmentToSlice, m_NextUnusedSlice>>
       ELSE /\ SlicesMtxFree
            /\ LET map   == EnsureBucket(m_AlignmentToSlice, l.Alignment)
                   Slice == NextSliceInList(map[l.Alignment], l.Slice, m_NextUnusedSlice)
               IN  /\ SetLoc(t, [l EXCEPT !.Slice = Slice])
                   /\ IF Slice = m_NextUnusedSlice
                      THEN IF ReachedMaxSliceCount(Slice)
                           THEN /\ m_AlignmentToSlice' = map
                                /\ Goto(t, AfterLoop(l.Subregion))
                                /\ UNCHANGED <<m_SlicesMtx, m_Slices, m_NextUnusedSlice>>
                           ELSE IF Slice >= Len(m_Slices)
                           THEN /\ m_AlignmentToSlice' = map
                                /\ m_SlicesMtx' = t
                                /\ Goto(t, "alloc_grow")
                                /\ UNCHANGED <<m_Slices, m_NextUnusedSlice>>
                           ELSE NewSlice(t, map, m_Slices, Slice, l.Alignment)
                      ELSE /\ m_AlignmentToSlice' = map
                           /\ Goto(t, "alloc_slice")
                           /\ UNCHANGED <<m_SlicesMtx, m_Slices, m_NextUnusedSlice>>
    /\ UNCHANGED <<cfg, m_DescArraySize, m_pTexture, texCreated, m_Version, m_AllocationCount,
                   m_AllocatedArea, m_UsedArea, handles, atlas>>
    /\ SnapStep(t, snap[t])

\* Lines 311-331: one pass of the loop that grows m_Slices, with m_SlicesMtx held;
\* the pass that makes room goes on to the end of the locked section.
AllocGrow(t) ==
    /\ pc[t] = "alloc_grow"
    /\ LET l == loc[t]
           slices == GrowSlices(m_Slices, l.Slice)
       IN  IF l.Slice >= Len(slices)
           THEN /\ m_Slices' = slices
                /\ UNCHANGED <<pc, m_SlicesMtx, m_AlignmentToSlice, m_NextUnusedSlice>>
           ELSE NewSlice(t, m_AlignmentToSlice, slices, l.Slice, l.Alignment)
    /\ UNCHANGED <<cfg, m_DescArraySize, m_pTexture, texCreated, m_Version, m_AllocationCount,
                   m_AllocatedArea, m_UsedArea, handles, atlas, loc>>
    /\ SnapStep(t, snap[t])

\* Lines 333-335 and 440-443: SliceManager::Allocate takes the slice's mutex and the
\* region manager looks for a place.
AllocSlice(t) ==
    /\ pc[t] = "alloc_slice"
    /\ LET l == loc[t]
           sl == m_Slices[l.Slice + 1]
       IN  IF ~sl.init
           THEN /\ SetLoc(t, [l EXCEPT !.Slice = l.Slice + 1])
                /\ Goto(t, "alloc_loop")
                /\ UNCHANGED m_Slices
           ELSE /\ SliceMtxFree(sl)
                /\ LET found == MgrAllocate(sl, l.AlignedWidth \div l.Alignment,
                                            l.AlignedHeight \div l.Alignment)
                   IN  \E r \in (IF found = {} THEN {NoRegion} ELSE found) :
                           SetLoc(t, [l EXCEPT !.Subregion = r])
                /\ m_Slices' = [m_Slices EXCEPT ![l.Slice + 1].Mtx = t]
                /\ Goto(t, "alloc_commit")
    /\ UNCHANGED <<cfg, m_DescArraySize, m_pTexture, texCreated, m_Version, m_AllocationCount,
                   m_AllocatedArea, m_UsedArea, m_SlicesMtx, m_AlignmentToSlice,
                   m_NextUnusedSlice, handles, atlas>>
    /\ SnapStep(t, snap[t])

\* Lines 443, 336-340: the region manager records the region, the slice's mutex is
\* released, and the loop ends or moves to the next slice.
AllocCommit(t) ==
    /\ pc[t] = "alloc_commit"
    /\ LET l == loc[t] IN
       /\ m_Slices' = [m_Slices EXCEPT
                         ![l.Slice + 1].Regions =
                             IF IsEmpty(l.Subregion) THEN @ ELSE @ \cup {l.Subregion},
                         ![l.Slice + 1].Mtx = 0]
       /\ IF ~IsEmpty(l.Subregion)
          THEN /\ Goto(t, AfterLoop(l.Subregion))
               /\ UNCHANGED loc
          ELSE /\ SetLoc(t, [l EXCEPT !.Slice = l.Slice + 1])
               /\ Goto(t, "alloc_loop")
    /\ UNCHANGED <<cfg, m_DescArraySize, m_pTexture, texCreated, m_Version, m_AllocationCount,
                   m_AllocatedArea, m_UsedArea, m_SlicesMtx, m_AlignmentToSlice,
                   m_NextUnusedSlice, handles, atlas>>
    /\ SnapStep(t, snap[t])

\* Line 349.
AllocAdd1(t) ==
    /\ pc[t] = "alloc_add1"
    /\ m_AllocatedArea' = m_AllocatedArea + loc[t].Width * loc[t].Height
    /\ Goto(t, "alloc_add2")
    /\ UNCHANGED <<cfg, m_DescArraySize, m_pTexture, texCreated, m_Version, m_AllocationCount,
                   m_UsedArea, m_SlicesMtx, m_Slices, m_AlignmentToSlice,
                   m_NextUnusedSlice, handles, atlas, loc>>
    /\ SnapStep(t, snap[t])

\* Line 350.
AllocAdd2(t) ==
    /\ pc[t] = "alloc_add2"
    /\ m_UsedArea' = m_UsedArea + loc[t].AlignedWidth * loc[t].AlignedHeight
    /\ Goto(t, "alloc_add3")
    /\ UNCHANGED <<cfg, m_DescArraySize, m_pTexture, texCreated, m_Version, m_AllocationCount,
                   m_AllocatedArea, m_SlicesMtx, m_Slices, m_AlignmentToSlice,
                   m_NextUnusedSlice, handles, atlas, loc>>
    /\ SnapStep(t, snap[t])

\* Lines 52-69, 121: the object the call constructs; m_pParentAtlas is a strong
\* reference to the atlas.
NewHandle_WeakParent(l) ==
    [exists |-> TRUE, refs |-> 1, Slice |-> l.Slice, Alignment |-> l.Alignment,
     Subregion |-> l.Subregion, Size |-> [x |-> l.Width, y |-> l.Height], freed |-> 0,
     parentRefs |-> 0]

NewHandle(l) ==
    [exists |-> TRUE, refs |-> 1, Slice |-> l.Slice, Alignment |-> l.Alignment,
     Subregion |-> l.Subregion, Size |-> [x |-> l.Width, y |-> l.Height], freed |-> 0,
     parentRefs |-> 1]

\* Lines 351-366: the allocation is counted, and the suballocation object is
\* constructed and returned.
AllocAdd3(t) ==
    /\ pc[t] = "alloc_add3"
    /\ m_AllocationCount' = m_AllocationCount + 1
    /\ LET h == SetMin(HandleIds \ ExistingHandles)
           obj == NewHandle(loc[t])
       IN  /\ handles' = [handles EXCEPT ![h] = obj]
           /\ atlas' = [atlas EXCEPT !.refs = @ + obj.parentRefs]
           /\ SetLoc(t, [loc[t] EXCEPT !.h = h])
    /\ Goto(t, "alloc_ret")
    /\ UNCHANGED <<cfg, m_DescArraySize, m_pTexture, texCreated, m_Version,
                   m_AllocatedArea, m_UsedArea, m_SlicesMtx, m_Slices, m_AlignmentToSlice,
                   m_NextUnusedSlice>>
    /\ SnapStep(t, snap[t])

\* Lines 87-104: GetOrigin, GetSlice and GetSize of suballocation object obj.
GetOrigin(obj) ==
    [x |-> obj.Subregion.x * obj.Alignment, y |-> obj.Subregion.y * obj.Alignment]

GetSlice(obj) == obj.Slice

GetSize(obj) == obj.Size

\* The call returns to its caller.
AllocReturn(t) ==
    /\ pc[t] = "alloc_ret"
    /\ Goto(t, "idle")
    /\ SetLoc(t, NoLocals)
    /\ UNCHANGED <<cfg, m_DescArraySize, m_pTexture, texCreated, m_Version, m_AllocationCount,
                   m_AllocatedArea, m_UsedArea, m_SlicesMtx, m_Slices, m_AlignmentToSlice,
                   m_NextUnusedSlice, handles, atlas>>
    /\ SnapStep(t, <<>>)

(***************************************************************************)
(* TextureAtlasSuballocationImpl: AddRef, Release and the destructor, and  *)
(* DynamicTextureAtlasImpl::Free, which the destructor calls.              *)
(***************************************************************************)
\* Suballocation h has been returned to the caller of the Allocate that made it.
Returned(h) ==
    /\ handles[h].exists /\ handles[h].refs > 0
    /\ \A u \in Threads : ~(pc[u] = "alloc_ret" /\ loc[u].h = h)

\* ObjectBase::AddRef on a suballocation the caller holds.
AddRef(h) ==
    /\ Returned(h)
    /\ handles[h].refs < MaxRefs
    /\ \E t \in Threads : pc[t] = "idle"
    /\ handles' = [handles EXCEPT ![h].refs = @ + 1]
    /\ UNCHANGED <<cfg, m_DescArraySize, m_pTexture, texCreated, m_Version, m_AllocationCount,
                   m_AllocatedArea, m_UsedArea, m_SlicesMtx, m_Slices, m_AlignmentToSlice,
                   m_NextUnusedSlice, atlas, pc, loc, snap>>

\* ObjectBase::Release destroys the object when the counter it decremented is zero.
IsLastReference(refs) == refs = 0

\* Lines 75-85: Release; the call that drops the last reference takes a reference
\* to the atlas (line 83, pAtlas) and goes on to destroy the object.
Release(t, h) ==
    /\ handles[h].exists /\ handles[h].refs > 0
    /\ (pc[t] = "idle" /\ Returned(h)) \/ (pc[t] = "alloc_ret" /\ loc[t].h = h)
    /\ handles' = [handles EXCEPT ![h].refs = @ - 1]
    /\ IF IsLastReference(handles[h].refs - 1)
       THEN /\ atlas' = [atlas EXCEPT !.refs = @ + 1]
            /\ SetLoc(t, [NoLocals EXCEPT !.h = h])
            /\ Goto(t, "free_sub1")
       ELSE /\ SetLoc(t, NoLocals)
            /\ Goto(t, "idle")
            /\ UNCHANGED atlas
    /\ UNCHANGED <<cfg, m_DescArraySize, m_pTexture, texCreated, m_Version, m_AllocationCount,
                   m_AllocatedArea, m_UsedArea, m_SlicesMtx, m_Slices, m_AlignmentToSlice,
                   m_NextUnusedSlice>>
    /\ SnapStep(t, IF pc[t] = "alloc_ret" /\ IsLastReference(handles[h].refs - 1)
                   THEN snap[t] ELSE <<>>)

\* Line 371: the area Free subtracts from m_AllocatedArea.
FreedAllocatedArea_Aligned(obj) ==
    (obj.Subregion.width * obj.Alignment) * (obj.Subregion.height * obj.Alignment)

FreedAllocatedArea(obj) == obj.Size.x * obj.Size.y

\* Lines 462-465 and 371: the destructor calls Free, which subtracts the requested area.
FreeSub1(t) ==
    /\ pc[t] = "free_sub1"
    /\ LET obj == handles[loc[t].h] IN
       /\ handles' = [handles EXCEPT ![loc[t].h].freed = @ + 1]
       /\ m_AllocatedArea' = m_AllocatedArea - FreedAllocatedArea(obj)
    /\ Goto(t, "free_sub2")
    /\ UNCHANGED <<cfg, m_DescArraySize, m_pTexture, texCreated, m_Version, m_AllocationCount,
                   m_UsedArea, m_SlicesMtx, m_Slices, m_AlignmentToSlice,
                   m_NextUnusedSlice, atlas, loc>>
    /\ SnapStep(t, snap[t])

\* Line 372: the area Free subtracts from m_UsedArea.
FreedUsedArea_Cells(Subregion, Alignment) == Subregion.width * Subregion.height

FreedUsedArea(Subregion, Alignment) ==
    (Subregion.width * Alignment) * (Subregion.height * Alignment)

\* Line 372.
FreeSub2(t) ==
    /\ pc[t] = "free_sub2"
    /\ LET obj == handles[loc[t].h] IN
       m_UsedArea' = m_UsedArea - FreedUsedArea(obj.Subregion, obj.Alignment)
    /\ Goto(t, "free_sub3")
    /\ UNCHANGED <<cfg, m_DescArraySize, m_pTexture, texCreated, m_Version, m_AllocationCount,
                   m_AllocatedArea, m_SlicesMtx, m_Slices, m_AlignmentToSlice,
                   m_NextUnusedSlice, handles, atlas, loc>>
    /\ SnapStep(t, snap[t])

\* Line 373.
FreeSub3(t) ==
    /\ pc[t] = "free_sub3"
    /\ m_AllocationCount' = m_AllocationCount - 1
    /\ Goto(t, "free_lock")
    /\ UNCHANGED <<cfg, m_DescArraySize, m_pTexture, texCreated, m_Version,
                   m_AllocatedArea, m_UsedArea, m_SlicesMtx, m_Slices, m_AlignmentToSlice,
                   m_NextUnusedSlice, handles, atlas, loc>>
    /\ SnapStep(t, snap[t])

\* Lines 375-387: the slice's manager is looked up under m_SlicesMtx.
FreeLock(t) ==
    /\ pc[t] = "free_lock"
    /\ SlicesMtxFree
    /\ Goto(t, "free_slice")
    /\ UNCHANGED <<cfg, m_DescArraySize, m_pTexture, texCreated, m_Version, m_AllocationCount,
                   m_AllocatedArea, m_UsedArea, m_SlicesMtx, m_Slices, m_AlignmentToSlice,
                   m_NextUnusedSlice, handles, atlas, loc>>
    /\ SnapStep(t, snap[t])

\* Lines 388 and 445-449: SliceManager::Free returns the region under the slice's mutex.
FreeSlice(t) ==
    /\ pc[t] = "free_slice"
    /\ LET obj == handles[loc[t].h]
           sl == m_Slices[obj.Slice + 1]
       IN  /\ SliceMtxFree(sl)
           /\ m_Slices' = [m_Slices EXCEPT ![obj.Slice + 1].Regions = MgrFree(sl, obj.Subregion)]
    /\ Goto(t, "dtor_members")
    /\ UNCHANGED <<cfg, m_DescArraySize, m_pTexture, texCreated, m_Version, m_AllocationCount,
                   m_AllocatedArea, m_UsedArea, m_SlicesMtx, m_AlignmentToSlice,
                   m_NextUnusedSlice, handles, atlas, loc>>
    /\ SnapStep(t, snap[t])

\* ObjectBase::Release on the atlas: the atlas is destroyed when its counter is zero.
ReleaseAtlasRef(a, n) == [a EXCEPT !.refs = @ - n, !.alive = @ /\ ~IsLastReference(a.refs - n)]

\* After the destructor's body the members are destroyed, m_pParentAtlas (line 121)
\* among them.
DtorMembers(t) ==
    /\ pc[t] = "dtor_members"
    /\ atlas' = ReleaseAtlasRef(atlas, handles[loc[t].h].parentRefs)
    /\ Goto(t, "release_end")
    /\ UNCHANGED <<cfg, m_DescArraySize, m_pTexture, texCreated, m_Version, m_AllocationCount,
                   m_AllocatedArea, m_UsedArea, m_SlicesMtx, m_Slices, m_AlignmentToSlice,
                   m_NextUnusedSlice, handles, loc>>
    /\ SnapStep(t, snap[t])

\* The end of Release: the object's memory goes back to the allocator the atlas
\* owns, Release returns and pAtlas lets go of the atlas (line 85).
ReleaseEnd(t) ==
    /\ pc[t] = "release_end"
    /\ handles' = [handles EXCEPT ![loc[t].h] = NoHandle]
    /\ atlas' = ReleaseAtlasRef(atlas, 1)
    /\ Goto(t, "idle")
    /\ SetLoc(t, NoLocals)
    /\ UNCHANGED <<cfg, m_DescArraySize, m_pTexture, texCreated, m_Version, m_AllocationCount,
                   m_AllocatedArea, m_UsedArea, m_SlicesMtx, m_Slices, m_AlignmentToSlice,
                   m_NextUnusedSlice>>
    /\ SnapStep(t, <<>>)

UserCallPcs == AllocPcs \cup {"gt_ret", "stats_ret"}

\* The owner of the atlas lets go of its reference; it is in no call of the atlas then.
ReleaseAtlas ==
    /\ atlas.alive /\ atlas.user
    /\ \A t \in Threads : pc[t] \notin UserCallPcs
    /\ atlas' = [ReleaseAtlasRef(atlas, 1) EXCEPT !.user = FALSE]
    /\ UNCHANGED <<cfg, m_DescArraySize, m_pTexture, texCreated, m_Version, m_AllocationCount,
                   m_AllocatedArea, m_UsedArea, m_SlicesMtx, m_Slices, m_AlignmentToSlice,
                   m_NextUnusedSlice, handles, pc, loc, snap>>

(***************************************************************************)
(* DynamicTextureAtlasImpl::GetTexture, GetUsageStats.                     *)
(***************************************************************************)
\* pDevice->CreateTexture (line 218) gives a texture or leaves pNewTexture null.
\* Lines 204-251: the size of m_Slices is read under m_SlicesMtx, and the texture is
\* created anew when it differs from m_Desc.ArraySize.  One thread at a time calls
\* GetTexture, and nothing else reads or writes what it changes, so the call is one
\* step.  loc keeps what the call found (history) until it returns.
GetTexture(t, created) ==
    /\ pc[t] = "idle"
    /\ atlas.alive /\ atlas.user
    /\ \A u \in Threads : pc[u] \notin {"gt_ret", "stats_ret"}
    /\ SlicesMtxFree
    /\ LET ArraySize == Len(m_Slices) IN
       IF m_DescArraySize /= ArraySize
       THEN /\ m_DescArraySize' = ArraySize
            /\ texCreated' = IF created THEN texCreated + 1 ELSE texCreated
            /\ m_Version' = m_Version + 1
            /\ m_pTexture' = IF created THEN texCreated + 1 ELSE 0
            /\ SetLoc(t, [NoLocals EXCEPT !.ArraySize = ArraySize, !.grow = TRUE,
                                          !.created = created,
                                          !.before = <<m_Version, m_pTexture, m_DescArraySize>>])
       ELSE /\ created
            /\ SetLoc(t, [NoLocals EXCEPT !.ArraySize = ArraySize,
                                          !.before = <<m_Version, m_pTexture, m_DescArraySize>>])
            /\ UNCHANGED <<m_DescArraySize, texCreated, m_Version, m_pTexture>>
    /\ Goto(t, "gt_ret")
    /\ UNCHANGED <<cfg, m_AllocationCount, m_AllocatedArea, m_UsedArea, m_SlicesMtx, m_Slices,
                   m_AlignmentToSlice, m_NextUnusedSlice, handles, atlas>>
    /\ SnapStep(t, <<>>)

\* Line 253: return m_pTexture.
GetTextureReturn(t) ==
    /\ pc[t] = "gt_ret"
    /\ Goto(t, "idle")
    /\ SetLoc(t, NoLocals)
    /\ UNCHANGED <<cfg, m_DescArraySize, m_pTexture, texCreated, m_Version, m_AllocationCount,
                   m_AllocatedArea, m_UsedArea, m_SlicesMtx, m_Slices, m_AlignmentToSlice,
                   m_NextUnusedSlice, handles, atlas>>
    /\ SnapStep(t, <<>>)

\* Lines 401-413: AllocationCount, TotalArea, AllocatedArea, UsedArea.
GetUsageStats(t) ==
    /\ pc[t] = "idle"
    /\ atlas.alive /\ atlas.user
    /\ \A u \in Threads : pc[u] \notin {"gt_ret", "stats_ret"}
    /\ SetLoc(t, [NoLocals EXCEPT !.Stats = <<m_AllocationCount,
                                             cfg.Width * cfg.Height * m_DescArraySize,
                                             m_AllocatedArea, m_UsedArea>>])
    /\ Goto(t, "stats_ret")
    /\ UNCHANGED <<cfg, m_DescArraySize, m_pTexture, texCreated, m_Version, m_AllocationCount,
                   m_AllocatedArea, m_UsedArea, m_SlicesMtx, m_Slices, m_AlignmentToSlice,
                   m_NextUnusedSlice, handles, atlas>>
    /\ SnapStep(t, <<>>)

GetUsageStatsReturn(t) ==
    /\ pc[t] = "stats_ret"
    /\ Goto(t, "idle")
    /\ SetLoc(t, NoLocals)
    /\ UNCHANGED <<cfg, m_DescArraySize, m_pTexture, texCreated, m_Version, m_AllocationCount,
                   m_AllocatedArea, m_UsedArea, m_SlicesMtx, m_Slices, m_AlignmentToSlice,
                   m_NextUnusedSlice, handles, atlas>>
    /\ SnapStep(t, <<>>)

\* The requests the callers make: the squares up to one more than the atlas, one
\* that is wider than high, and ones with a single bad dimension.
Requests ==
    {<<k, k>> : k \in 0..(MaxDim + 1)}
        \cup {<<MaxDim, MaxDim - 1>>, <<MaxDim + 1, 1>>, <<1, 0>>}

\* The steps of Allocate and of the release of a suballocation, by thread t.
CallStep(t) ==
    \/ \E r \in Requests : Allocate(t, r[1], r[2])
    \/ AllocLoop(t)
    \/ AllocGrow(t)
    \/ AllocSlice(t)
    \/ AllocCommit(t)
    \/ AllocAdd1(t)
    \/ AllocAdd2(t)
    \/ AllocAdd3(t)
    \/ AllocReturn(t)
    \/ \E h \in HandleIds : Release(t, h)
    \/ FreeSub1(t)
    \/ FreeSub2(t)
    \/ FreeSub3(t)
    \/ FreeLock(t)
    \/ FreeSlice(t)
    \/ DtorMembers(t)
    \/ ReleaseEnd(t)

\* The steps of GetTexture and GetUsageStats, by thread t.
SurfaceStep(t) ==
    \/ \E created \in BOOLEAN : GetTexture(t, created)
    \/ GetTextureReturn(t)
    \/ GetUsageStats(t)
    \/ GetUsageStatsReturn(t)

\* Concurrent callers of Allocate and Release.
Next ==
    \/ \E t \in Threads : CallStep(t)
    \/ \E h \in HandleIds : AddRef(h)
    \/ ReleaseAtlas

Spec == Init /\ [][Next]_vars

\* One caller, and every operation of the atlas.
NextSeq ==
    \/ CallStep(1)
    \/ SurfaceStep(1)
    \/ \E h \in HandleIds : AddRef(h)
    \/ ReleaseAtlas

SpecSeq == InitSeq /\ [][NextSeq]_vars

\* Atlases of side AlignDim, for the alignment Allocate resolves: every minimum
\* alignment the constructor accepts for that side, and every request size.
AlignCreateInfos ==
    { c \in [Width : {AlignDim}, Height : {AlignDim}, MinAlignment : 0..AlignDim,
             ArraySize : 0..MaxArraySize, ExtraSliceCount : 0..MaxExtraSliceCount,
             MaxSliceCount : 1..MaxSliceCountArg, isArray : BOOLEAN, hasDevice : {TRUE}] :
        ValidMinAlignment(c.MinAlignment, c.Width, c.Height) }

InitAlign == \E c \in AlignCreateInfos : Constructed(c)

AlignRequests == (0..(AlignDim + 1)) \X (0..(AlignDim + 1))

\* One caller that allocates and releases.
NextAlign ==
    \/ \E r \in AlignRequests : Allocate(1, r[1], r[2])
    \/ CallStep(1)

SpecAlign == InitAlign /\ [][NextAlign]_vars

(***************************************************************************)
(* Properties.                                                             *)
(***************************************************************************)
\* The sum of f[x] over the x in S.
RECURSIVE SumOver(_, _)
SumOver(S, f) ==
    IF S = {} THEN 0
    ELSE LET x == CHOOSE y \in S : TRUE IN f[x] + SumOver(S \ {x}, f)

RequestedAreaOf == [h \in HandleIds |-> handles[h].Size.x * handles[h].Size.y]

\* v rounded up to a multiple of a, said without division: the least multiple of a
\* that is not below v.
IsRoundedUp(r, v, a) == r % a = 0 /\ r >= v /\ r - a < v

AlignedAreaOf ==
    [h \in HandleIds |->
        IF ~handles[h].exists THEN 0
        ELSE LET a == handles[h].Alignment
                 w == CHOOSE r \in 0..(handles[h].Size.x + a) :
                         IsRoundedUp(r, handles[h].Size.x, a)
                 d == CHOOSE r \in 0..(handles[h].Size.y + a) :
                         IsRoundedUp(r, handles[h].Size.y, a)
             IN  w * d]

AllocateRunning(t) ==
    pc[t] \in {"alloc_loop", "alloc_grow", "alloc_slice", "alloc_commit",
               "alloc_add1", "alloc_add2", "alloc_add3"}

FreeRunning(t) ==
    pc[t] \in {"free_sub1", "free_sub2", "free_sub3", "free_lock", "free_slice"}

NoCallInProgress == \A t \in Threads : ~AllocateRunning(t) /\ ~FreeRunning(t)

\* The request of the call of thread t is one Allocate must refuse at once.
OutOfRange(t) ==
    \/ loc[t].Width = 0 \/ loc[t].Height = 0
    \/ loc[t].Width > cfg.Width \/ loc[t].Height > cfg.Height

\* The call of thread t has run alone since it began.
RanAlone(t) == snap[t] /= <<>>

Before(t) == snap[t][1]

\* C1: any two suballocations that are live at the same time and are in the same
\* slice hold regions that do not intersect.
NoDoubleBooking ==
    \A h1 \in LiveHandles, h2 \in LiveHandles :
        (h1 /= h2 /\ handles[h1].Slice = handles[h2].Slice)
            => ~Intersect(handles[h1].Subregion, handles[h2].Subregion)

\* Two threads have allocated in the same slice, and both suballocations are live.
TwoLiveInOneSlice ==
    \E h1 \in LiveHandles, h2 \in LiveHandles :
        /\ h1 /= h2
        /\ handles[h1].Slice = handles[h2].Slice
        /\ \A t \in Threads : pc[t] = "alloc_ret" /\ loc[t].h \in {h1, h2}

\* C2: when no Allocate and no Free is running, the allocation count is the number
\* of live suballocations, the allocated area the sum of their requested areas and
\* the used area the sum of their aligned areas; all are zero when none is live.
CountersMatchLiveHandles ==
    NoCallInProgress =>
        /\ m_AllocationCount = Cardinality(LiveHandles)
        /\ m_AllocatedArea = SumOver(LiveHandles, RequestedAreaOf)
        /\ m_UsedArea = SumOver(LiveHandles, AlignedAreaOf)
        /\ LiveHandles = {} => Counters = <<0, 0, 0>>

\* Every suballocation has been released, the last one by a Release that has just
\* come back from Free, while a padded suballocation was live before.
DrainedAfterRelease ==
    /\ NoCallInProgress
    /\ LiveHandles = {}
    /\ \E t \in Threads :
        /\ pc[t] = "release_end"
        /\ handles[loc[t].h].Size.x < handles[loc[t].h].Alignment
    /\ m_NextUnusedSlice > 1

\* C3: an Allocate that succeeds and is followed at once by the release of the
\* suballocation it returned leaves the three counters as they were before it.
RoundTripRestoresCounters ==
    \A t \in Threads :
        (pc[t] = "release_end" /\ RanAlone(t)) => Counters = Before(t).counters

\* A round trip of a padded suballocation has ended while another suballocation is live.
RoundTripDone ==
    \E t \in Threads :
        /\ pc[t] = "release_end" /\ RanAlone(t)
        /\ handles[loc[t].h].Alignment > 1
        /\ handles[loc[t].h].Size.x < handles[loc[t].h].Alignment
        /\ LiveHandles /= {}

\* C4: a successful Allocate returns one suballocation, which alone holds the
\* region; Free runs once for a suballocation whose last reference is gone, and
\* never for a live one; the atlas outlives every suballocation object, and its
\* counters are zero when it is destroyed.
ReleasedExactlyOnce ==
    /\ \A t \in Threads :
        (pc[t] = "alloc_ret" /\ ~IsEmpty(loc[t].Subregion)) =>
            /\ loc[t].h \in LiveHandles
            /\ \A h \in LiveHandles :
                (handles[h].Slice = loc[t].Slice /\ handles[h].Subregion = loc[t].Subregion)
                    <=> h = loc[t].h
    /\ \A h \in ExistingHandles :
        /\ handles[h].freed <= 1
        /\ handles[h].refs > 0 => handles[h].freed = 0
    /\ \A t \in Threads :
        pc[t] \in {"free_sub2", "free_sub3", "free_lock", "free_slice", "dtor_members",
                   "release_end"} => handles[loc[t].h].freed = 1
    /\ ExistingHandles /= {} => atlas.alive
    /\ ~atlas.alive => Counters = <<0, 0, 0>>

\* The last reference to the atlas is the one Release holds while it destroys the
\* last suballocation, whose other reference was dropped before.
HandleHoldsLastAtlasReference ==
    \E t \in Threads :
        /\ pc[t] = "release_end"
        /\ ~atlas.user
        /\ atlas.refs = 1
        /\ ExistingHandles = {loc[t].h}

\* C5: an Allocate of a zero or an oversized request returns no suballocation and
\* leaves the counters, the slices, the next unused slice, the alignment lists and
\* every slice's regions as they were.
RejectedRequestChangesNothing ==
    \A t \in Threads :
        (pc[t] = "alloc_ret" /\ OutOfRange(t)) =>
            /\ loc[t].h = 0
            /\ RanAlone(t) => AtlasView = Before(t)

\* An oversized request has been refused by an atlas that holds a suballocation.
OversizedRejected ==
    \E t \in Threads :
        /\ pc[t] = "alloc_ret" /\ RanAlone(t)
        /\ loc[t].Width > cfg.Width
        /\ LiveHandles /= {}

\* C6: an Allocate that finds no region returns no suballocation, leaves the three
\* counters as they were and leaves the regions of every slice that existed as
\* they were.
ExhaustedChangesNoCounterNorRegion ==
    \A t \in Threads :
        (pc[t] = "alloc_ret" /\ ~OutOfRange(t) /\ IsEmpty(loc[t].Subregion)) =>
            /\ loc[t].h = 0
            /\ RanAlone(t) =>
                /\ Counters = Before(t).counters
                /\ \A i \in DOMAIN Before(t).occupancy :
                    Before(t).occupancy[i].init => Occupancy[i] = Before(t).occupancy[i]

\* An Allocate has found no region because a live suballocation of its alignment
\* fills the only slice.
ExhaustedByLiveHandle ==
    \E t \in Threads, h \in LiveHandles :
        /\ pc[t] = "alloc_ret" /\ RanAlone(t)
        /\ ~OutOfRange(t) /\ IsEmpty(loc[t].Subregion)
        /\ handles[h].Alignment = loc[t].Alignment
        /\ cfg.MaxSliceCount = 1

\* C7: an Allocate that returns no suballocation leaves the next unused slice, the
\* length of m_Slices and the alignment lists as they were.
FailedAllocateKeepsStructure ==
    \A t \in Threads :
        (pc[t] = "alloc_ret" /\ loc[t].h = 0 /\ RanAlone(t)) =>
            Structure = Before(t).structure

\* C8: when GetTexture had to grow the texture and the device created none, the
\* version, the stored texture and m_Desc.ArraySize are what they were.
GrowthFailureChangesNothing ==
    \A t \in Threads :
        (pc[t] = "gt_ret" /\ loc[t].grow /\ ~loc[t].created) =>
            <<m_Version, m_pTexture, m_DescArraySize>> = loc[t].before

\* A step of GetTexture that finds the size of m_Slices different from m_Desc.ArraySize.
GrowthStep ==
    /\ \E t \in Threads : pc[t] = "idle" /\ pc'[t] = "gt_ret"
    /\ m_DescArraySize /= Len(m_Slices)

\* C9: the version never decreases; a GetTexture that finds the size of m_Slices
\* different from m_Desc.ArraySize stores a new texture and adds one to the version;
\* every other step leaves the version and the stored texture alone.
VersionBookkeeping ==
    [][/\ m_Version' >= m_Version
       /\ GrowthStep => /\ m_Version' = m_Version + 1
                        /\ m_pTexture' /= 0
                        /\ m_pTexture' /= m_pTexture
       /\ ~GrowthStep => UNCHANGED <<m_Version, m_pTexture>>]_vars

\* The alignment the claim gives: minAlignment, or 1 when it is 0, doubled while
\* it is below the smaller side.
RECURSIVE ClaimedAlignment(_, _)
ClaimedAlignment(a, m) == IF a < m THEN ClaimedAlignment(2 * a, m) ELSE a

\* C10 as claimed: the alignment of an accepted request is ClaimedAlignment from
\* minAlignment or, when that is 0, from 1, and the aligned sizes are the sizes
\* rounded up to its multiples.
AlignmentDoublesFromOne ==
    \A t \in Threads :
        (pc[t] \in AllocPcs /\ ~OutOfRange(t)) =>
            /\ loc[t].Alignment =
                ClaimedAlignment(IF cfg.MinAlignment /= 0 THEN cfg.MinAlignment ELSE 1,
                                 MinOf(loc[t].Width, loc[t].Height))
            /\ IsRoundedUp(loc[t].AlignedWidth, loc[t].Width, loc[t].Alignment)
            /\ IsRoundedUp(loc[t].AlignedHeight, loc[t].Height, loc[t].Alignment)

\* C10 as amended: with a minimum alignment of 0 the alignment is 1; otherwise it
\* is the least of minAlignment, 2 minAlignment, 4 minAlignment, ... that is not
\* below the smaller side.  The aligned sizes are the sizes rounded up to its
\* multiples.
AlignmentIsOneWithoutMinimum ==
    \A t \in Threads :
        (pc[t] \in AllocPcs /\ ~OutOfRange(t)) =>
            LET a == loc[t].Alignment
                m == MinOf(loc[t].Width, loc[t].Height)
            IN  /\ cfg.MinAlignment = 0 => a = 1
                /\ cfg.MinAlignment /= 0 =>
                    /\ \E k \in 0..MaxDim : a = cfg.MinAlignment * Pow2(k)
                    /\ a >= m
                    /\ a = cfg.MinAlignment \/ a < 2 * m
                /\ IsRoundedUp(loc[t].AlignedWidth, loc[t].Width, a)
                /\ IsRoundedUp(loc[t].AlignedHeight, loc[t].Height, a)

\* Without a minimum alignment a request with both sides above 1 has been placed.
UnalignedRequestPlaced ==
    \E t \in Threads :
        /\ pc[t] = "alloc_ret" /\ loc[t].h /= 0
        /\ cfg.MinAlignment = 0
        /\ MinOf(loc[t].Width, loc[t].Height) > 1

\* C11 as claimed: the alignment of an accepted request is at most twice the
\* smaller side of the request.
AlignmentWithinTwiceSmallerSide ==
    \A t \in Threads :
        (pc[t] \in AllocPcs /\ ~OutOfRange(t)) =>
            loc[t].Alignment <= 2 * MinOf(loc[t].Width, loc[t].Height)

\* C11 as amended: the alignment of an accepted request is at most twice the
\* smaller side of the request, or it is the minimum alignment of the atlas.
AlignmentWithinTwiceSmallerSideOrMinimum ==
    \A t \in Threads :
        (pc[t] \in AllocPcs /\ ~OutOfRange(t)) =>
            \/ loc[t].Alignment <= 2 * MinOf(loc[t].Width, loc[t].Height)
            \/ loc[t].Alignment = cfg.MinAlignment

\* A request has been placed whose alignment, the minimum alignment, is more than
\* twice its smaller side.
SmallRequestPlacedAtMinimumAlignment ==
    \E t \in Threads :
        /\ pc[t] = "alloc_ret" /\ loc[t].h /= 0
        /\ loc[t].Alignment > 2 * MinOf(loc[t].Width, loc[t].Height)
        /\ loc[t].Alignment = cfg.MinAlignment

\* s is an initial part of sequence q.
IsPrefix(s, q) == Len(s) <= Len(q) /\ \A i \in 1..Len(s) : s[i] = q[i]

\* The alignments under which slice index i is registered in map.
AlignmentsOf(map, i) == {a \in DOMAIN map : \E k \in 1..Len(map[a]) : map[a][k] = i}

\* C12: in every step the next unused slice index does not decrease; a slice that
\* has been created stays created with the same manager, whose regions change by
\* at most one allocated or freed region; an alignment's list stays and is only
\* appended to; and a slice registered under an alignment is registered under no
\* other alignment afterwards.
SliceCreationIsMonotonic ==
    [][/\ m_NextUnusedSlice' >= m_NextUnusedSlice
       /\ \A i \in DOMAIN m_Slices :
            m_Slices[i].init =>
                /\ i \in DOMAIN m_Slices'
                /\ m_Slices'[i].init
                /\ m_Slices'[i].Width = m_Slices[i].Width
                /\ m_Slices'[i].Height = m_Slices[i].Height
                /\ Cardinality((m_Slices'[i].Regions \ m_Slices[i].Regions) \cup
                               (m_Slices[i].Regions \ m_Slices'[i].Regions)) <= 1
       /\ \A a \in DOMAIN m_AlignmentToSlice :
            /\ a \in DOMAIN m_AlignmentToSlice'
            /\ IsPrefix(m_AlignmentToSlice[a], m_AlignmentToSlice'[a])
       /\ \A i \in 0..(m_NextUnusedSlice - 1) :
            AlignmentsOf(m_AlignmentToSlice, i) /= {} =>
                AlignmentsOf(m_AlignmentToSlice', i) = AlignmentsOf(m_AlignmentToSlice, i)
      ]_vars

\* Two slices have been created under two alignments, m_Slices has grown, and every
\* suballocation has been released since.
SlicesOutliveTheirSuballocations ==
    /\ m_NextUnusedSlice = 2
    /\ Cardinality(DOMAIN m_AlignmentToSlice) = 2
    /\ \A i \in DOMAIN m_Slices : m_Slices[i].init /\ m_Slices[i].Regions = {}
    /\ \E t \in Threads : pc[t] = "release_end"
    /\ ExistingHandles \subseteq {loc[t].h : t \in Threads}

\* The slices that have been created.
CreatedSlices == {i \in DOMAIN m_Slices : m_Slices[i].init}

\* C13: the number of created slices and the next unused slice index are at most
\* m_MaxSliceCount, the slice of every suballocation is below it, and an Allocate
\* whose candidate slice is the next unused one when that is m_MaxSliceCount
\* creates no slice and returns no suballocation.
SliceCountIsCapped ==
    /\ Cardinality(CreatedSlices) <= cfg.MaxSliceCount
    /\ m_NextUnusedSlice <= cfg.MaxSliceCount
    /\ \A h \in ExistingHandles : handles[h].Slice < cfg.MaxSliceCount
    /\ \A t \in Threads :
        /\ pc[t] \in {"alloc_grow", "alloc_slice", "alloc_commit"} =>
                loc[t].Slice < cfg.MaxSliceCount
        /\ (pc[t] \in AllocPcs /\ ~OutOfRange(t) /\ loc[t].Slice >= cfg.MaxSliceCount) =>
                /\ IsEmpty(loc[t].Subregion)
                /\ pc[t] \in {"alloc_loop", "alloc_ret"}
                /\ loc[t].h = 0

\* An Allocate has returned no suballocation because its candidate was the next
\* unused slice, the second, of an array atlas with at most two slices.
AllocateStoppedAtMaxSliceCount ==
    \E t \in Threads :
        /\ pc[t] = "alloc_ret" /\ ~OutOfRange(t) /\ loc[t].h = 0
        /\ loc[t].Slice = m_NextUnusedSlice
        /\ m_NextUnusedSlice = cfg.MaxSliceCount
        /\ cfg.MaxSliceCount = 2
        /\ \E h \in LiveHandles : handles[h].Slice = 1

\* C14: every Allocate returns.  The steps of a call are deterministic and nothing
\* else writes m_Slices while m_SlicesMtx is held, so a call that is at a pass of
\* the loop of lines 311-318 which leaves m_Slices as it is never returns: the
\* claim requires that every pass makes m_Slices longer.
AllocateTerminates ==
    \A t \in Threads :
        pc[t] = "alloc_grow" =>
            Len(GrowSlices(m_Slices, loc[t].Slice)) > Len(m_Slices)

\* Thread t holds m_SlicesMtx, or the mutex of some slice.
HoldsSlicesMtx(t) == m_SlicesMtx = t

HoldsSliceMtx(t) == \E i \in DOMAIN m_Slices : m_Slices[i].Mtx = t

\* Thread t is at a lock_guard whose mutex another thread holds.
Waiting(t) ==
    \/ pc[t] = "alloc_loop" /\ loc[t].Slice < cfg.MaxSliceCount /\ ~SlicesMtxFree
    \/ pc[t] = "free_lock" /\ ~SlicesMtxFree
    \/ pc[t] = "alloc_slice" /\ m_Slices[loc[t].Slice + 1].init
                             /\ ~SliceMtxFree(m_Slices[loc[t].Slice + 1])
    \/ pc[t] = "free_slice" /\ ~SliceMtxFree(m_Slices[handles[loc[t].h].Slice + 1])

\* C15: no thread holds m_SlicesMtx and the mutex of a slice at the same time; a
\* thread that holds a mutex waits for none, so that every thread that waits for
\* a mutex waits for a thread that can take its next step (no deadlock).
LocksNeverHeldTogether ==
    /\ \A t \in Threads : ~(HoldsSlicesMtx(t) /\ HoldsSliceMtx(t))
    /\ \A t \in Threads : (HoldsSlicesMtx(t) \/ HoldsSliceMtx(t)) => ~Waiting(t)
    /\ \A t \in Threads :
        Waiting(t) => \E u \in Threads \ {t} :
                        /\ HoldsSlicesMtx(u) \/ HoldsSliceMtx(u)
                        /\ ~Waiting(u)

\* One thread holds m_SlicesMtx while another holds the mutex of a slice.
BothLocksHeldByDifferentThreads ==
    \E t \in Threads, u \in Threads :
        /\ t /= u
        /\ HoldsSlicesMtx(t)
        /\ HoldsSliceMtx(u)

\* The slices listed under alignment a in map.
SlicesOf(map, a) ==
    IF a \in DOMAIN map THEN {map[a][k] : k \in 1..Len(map[a])} ELSE {}

\* The manager of a slice (or its record in a snapshot) has no place for the
\* request of thread t.
Rejects(sl, t) ==
    MgrAllocate(sl, loc[t].AlignedWidth \div loc[t].Alignment,
                loc[t].AlignedHeight \div loc[t].Alignment) = {}

\* C16: the slice an Allocate asks for a region is listed under the call's
\* alignment and under no other.  For a call that runs alone: every slice of that
\* list with a lower index has no place for the request when the call asks a
\* slice, creates a slice, or returns a suballocation, whose slice is the lowest
\* of the list that has a place; a call that returns none was refused by every
\* slice that was in the list.
FirstFitWithinAlignment ==
    \A t \in Threads :
        /\ pc[t] \in {"alloc_slice", "alloc_commit"} =>
                AlignmentsOf(m_AlignmentToSlice, loc[t].Slice) = {loc[t].Alignment}
        /\ (pc[t] \in {"alloc_slice", "alloc_grow"} /\ RanAlone(t)) =>
                \A i \in SlicesOf(m_AlignmentToSlice, loc[t].Alignment) :
                    i < loc[t].Slice => Rejects(m_Slices[i + 1], t)
        /\ (pc[t] = "alloc_grow" /\ RanAlone(t)) =>
                \A i \in SlicesOf(Before(t).structure[3], loc[t].Alignment) :
                    Rejects(Before(t).occupancy[i + 1], t)
        /\ (pc[t] = "alloc_ret" /\ ~OutOfRange(t) /\ RanAlone(t)) =>
                LET listed == SlicesOf(Before(t).structure[3], loc[t].Alignment)
                    hasPlace == {i \in listed : ~Rejects(Before(t).occupancy[i + 1], t)}
                IN  IF loc[t].h = 0
                    THEN hasPlace = {}
                    ELSE /\ handles[loc[t].h].Slice = loc[t].Slice
                         /\ IF hasPlace = {}
                            THEN loc[t].Slice = Before(t).structure[1]
                            ELSE loc[t].Slice = SetMin(hasPlace)

\* An Allocate that ran alone has returned a suballocation in the second slice of
\* its alignment's list, which existed before the call, after the first slice of
\* the list refused the request.
SecondListedSliceReused ==
    \E t \in Threads :
        /\ pc[t] = "alloc_ret" /\ loc[t].h /= 0 /\ RanAlone(t)
        /\ loc[t].Slice = 1
        /\ Before(t).structure[1] = 2
        /\ SlicesOf(m_AlignmentToSlice, loc[t].Alignment) = {0, 1}

\* C17: when a slice has to be created at the index that is the size L of
\* m_Slices, the growth makes the size min(L + m_ExtraSliceCount, m_MaxSliceCount),
\* or min(2 L, m_MaxSliceCount) when m_ExtraSliceCount is 0, and the new size is
\* above the index of the slice.
GrowthStepMakesRoom ==
    \A t \in Threads :
        pc[t] = "alloc_grow" =>
            LET L == Len(m_Slices)
                grown == Len(GrowSlices(m_Slices, loc[t].Slice))
            IN  /\ loc[t].Slice = L
                /\ grown = MinOf(IF cfg.ExtraSliceCount /= 0
                                 THEN L + cfg.ExtraSliceCount ELSE 2 * L,
                                 cfg.MaxSliceCount)
                /\ grown > loc[t].Slice
                /\ grown >= L

\* C18: for every live suballocation GetSlice is the index of a created slice in
\* which its region is allocated, GetOrigin is the corner of that region in
\* texels, and the rectangle from GetOrigin of size GetSize is inside the atlas;
\* for the suballocation an Allocate returns, GetSize is the requested size and
\* GetOrigin and GetSlice are the corner and the slice the call found.
SuballocationInsideAtlas ==
    /\ \A h \in LiveHandles :
        LET obj == handles[h] IN
        /\ GetSlice(obj) + 1 \in CreatedSlices
        /\ obj.Subregion \in m_Slices[GetSlice(obj) + 1].Regions
        /\ GetOrigin(obj).x = obj.Subregion.x * obj.Alignment
        /\ GetOrigin(obj).y = obj.Subregion.y * obj.Alignment
        /\ GetOrigin(obj).x >= 0 /\ GetOrigin(obj).y >= 0
        /\ GetSize(obj).x > 0 /\ GetSize(obj).y > 0
        /\ GetOrigin(obj).x + GetSize(obj).x <= cfg.Width
        /\ GetOrigin(obj).y + GetSize(obj).y <= cfg.Height
    /\ \A t \in Threads :
        (pc[t] = "alloc_ret" /\ loc[t].h /= 0) =>
            LET obj == handles[loc[t].h] IN
            /\ GetSize(obj) = [x |-> loc[t].Width, y |-> loc[t].Height]
            /\ GetSlice(obj) = loc[t].Slice
            /\ GetOrigin(obj) = [x |-> loc[t].Subregion.x * loc[t].Alignment,
                                 y |-> loc[t].Subregion.y * loc[t].Alignment]

\* Two suballocations are live in an atlas whose side is not a multiple of the
\* alignment of one of them, and one of them is away from the atlas' corner.
PlacedWhereSideIsNoMultiple ==
    \E h1 \in LiveHandles, h2 \in LiveHandles :
        /\ cfg.Width % handles[h1].Alignment /= 0
        /\ GetOrigin(handles[h2]).x > 0

\* The number of regions allocated in the managers of all slices.
ReservedRegions ==
    SumOver(DOMAIN m_Slices, [i \in DOMAIN m_Slices |-> Cardinality(m_Slices[i].Regions)])

\* C19: in every state, also in the middle of Allocate and Free, the allocated
\* area, the used area and the allocation count are not negative, and the
\* allocation count is at most the number of regions allocated in the slices.
CountersNeverNegative ==
    /\ m_AllocatedArea >= 0
    /\ m_UsedArea >= 0
    /\ m_AllocationCount >= 0
    /\ m_AllocationCount <= ReservedRegions

\* One thread is in Free after the counters were decreased and before the region
\* is returned, another is in Allocate after its region was reserved and before
\* the counters are increased.
CountersBehindRegions ==
    \E t \in Threads, u \in Threads :
        /\ pc[t] = "free_slice"
        /\ pc[u] = "alloc_add1"
        /\ m_AllocationCount = 0
        /\ ReservedRegions = 2

\* The positions at which slice index i is listed under alignment a.
PositionsOf(map, a, i) == {k \in 1..Len(map[a]) : map[a][k] = i}

\* C20: whenever m_SlicesMtx is free, the next unused slice index is at most the
\* size of m_Slices; the created slices are those below it; every index below it
\* is listed under one alignment, once; no list holds an index that is not below
\* it; every list is strictly increasing; and the slice of every live
\* suballocation is listed under the suballocation's alignment.
SliceStructureIsConsistent ==
    SlicesMtxFree =>
        /\ m_NextUnusedSlice <= Len(m_Slices)
        /\ CreatedSlices = 1..m_NextUnusedSlice
        /\ \A i \in 0..(m_NextUnusedSlice - 1) :
            /\ Cardinality(AlignmentsOf(m_AlignmentToSlice, i)) = 1
            /\ \A a \in AlignmentsOf(m_AlignmentToSlice, i) :
                Cardinality(PositionsOf(m_AlignmentToSlice, a, i)) = 1
        /\ \A a \in DOMAIN m_AlignmentToSlice :
            /\ \A k \in 1..Len(m_AlignmentToSlice[a]) :
                m_AlignmentToSlice[a][k] \in 0..(m_NextUnusedSlice - 1)
            /\ \A k \in 1..(Len(m_AlignmentToSlice[a]) - 1) :
                m_AlignmentToSlice[a][k] < m_AlignmentToSlice[a][k + 1]
        /\ \A h \in LiveHandles :
            handles[h].Slice \in SlicesOf(m_AlignmentToSlice, handles[h].Alignment)

\* Two Allocate calls are returning suballocations of different alignments in two
\* slices, while the list of a third alignment is empty.
TwoAlignmentsTwoSlices ==
    /\ SlicesMtxFree
    /\ m_NextUnusedSlice = 2
    /\ \E h1 \in LiveHandles, h2 \in LiveHandles :
        /\ handles[h1].Alignment /= handles[h2].Alignment
        /\ handles[h1].Slice /= handles[h2].Slice
    /\ \E a \in DOMAIN m_AlignmentToSlice : m_AlignmentToSlice[a] = <<>>
    /\ \A t \in Threads : pc[t] = "alloc_ret"

====
